---- MODULE Spec2Model ----
(***************************************************************************)
(* Model of yakima (src/main.go): a source client that opens one           *)
(* connection to an Icecast server, performs the PUT / 100-continue        *)
(* handshake and then pipes the output of one ffmpeg process per file of   *)
(* the playback directory into that connection.                            *)
(*                                                                         *)
(* The supervisor (func main) is a sequential program whose position is    *)
(* pc.  Every spawned goroutine (cmd.Run with Stdout = the connection) is  *)
(* a record of pipes: the ffmpeg child, the os/exec pipe between the child *)
(* and the copier, and the copier that writes to the socket.               *)
(*                                                                         *)
(* pipes, wire and probed describe the current pass over the directory     *)
(* listing: they are emptied when the cursor wraps (Loop), so the model    *)
(* is finite although the program runs forever.                            *)
(***************************************************************************)
EXTENDS Naturals, Integers, Sequences, FiniteSets, TLC

\* ---- bounds of the model -------------------------------------------------
MaxFiles == 3       \* longest directory listing
MaxOut   == 2       \* most chunks one ffmpeg process produces
MaxResp  == 4       \* longest server response (in characters)
BuffSize == 3       \* size of the read buffer (1024 in the source, scaled)

\* ---- program constants -----------------------------------------------------
ExitDirectory == 1
ExitDial      == 2
ExitHandshake == 3
None          == -1

\* The response alphabet; NUL is the zero byte of the fresh buffer.
NUL == "0"
Chars == {"H", "C"}
\* "HTTP/1.1 100 Continue", abbreviated to its first and its last token.
ContinueLine == <<"H", "C">>

Kinds == {"dir", "bad", "ok"}

VARIABLES
  pc,          \* position of func main
  exitCode,    \* status passed to os.Exit, None while running
  Loop,        \* the Loop configuration constant
  files,       \* result of ioutil.ReadDir: the kind of every entry
  fileIndex,   \* cursor of the for loop
  conn,        \* icecastInstance: "none", "open", "closed"
  connBroken,  \* the peer has reset the connection: writes fail
  headers,     \* the handshake request has reached the connection
  resp,        \* what the server answers
  avail,       \* how much of resp the first Read returns
  reply,       \* string(buff) after conn.Read
  handshakeOk, \* beginIcecastConnection returned the connection
  pipes,       \* goroutines spawned in this pass, in spawn order
  wire,        \* audio chunks written to the socket in this pass
  probed,      \* entries handed to readAudioFile in this pass
  lastStarted, \* entry of the most recently spawned pipeline, None if none
  writeFailed, \* a write of audio to the socket has failed
  lastStatus,  \* exit status of the pipeline the last wg.Wait waited for
  printed      \* lines the last step of main wrote to standard output

vars == <<pc, exitCode, Loop, files, fileIndex, conn, connBroken, headers,
          resp, avail, reply, handshakeOk, pipes, wire, probed, lastStarted,
          writeFailed, lastStatus, printed>>

netVars  == <<conn, connBroken, headers, resp, avail, reply, handshakeOk>>
loopVars == <<fileIndex, pipes, wire, probed, lastStarted, writeFailed,
              lastStatus>>

\* ---- helpers -----------------------------------------------------------------
Min(a, b) == IF a < b THEN a ELSE b

SeqsUpTo(S, n) == UNION {[1..k -> S] : k \in 0..n}

Take(s, n) == SubSeq(s, 1, Min(n, Len(s)))

\* buff := make([]byte, 1024); conn.Read(buff): the first n bytes are data,
\* the rest stays zero.
ReadInto(data, size) ==
  [i \in 1..size |-> IF i <= Len(data) /\ i <= size THEN data[i] ELSE NUL]

\* strings.Index: first position at which substr occurs in s, 0 if none.
RECURSIVE IndexFrom(_, _, _)
IndexFrom(s, substr, i) ==
  IF i + Len(substr) - 1 > Len(s) THEN 0
  ELSE IF SubSeq(s, i, i + Len(substr) - 1) = substr THEN i
  ELSE IndexFrom(s, substr, i + 1)

\* strings.Contains
Contains(s, substr) == IndexFrom(s, substr, 1) > 0

Alive == pc \notin {"Exited", "Killed"}

Exit(code) == pc' = "Exited" /\ exitCode' = code

Init ==
  /\ pc = "ReadDir"
  /\ exitCode = None
  /\ Loop \in BOOLEAN
  /\ files = <<>>
  /\ fileIndex = -1
  /\ conn = "none"
  /\ connBroken = FALSE
  /\ headers = FALSE
  /\ resp = <<>>
  /\ avail = 0
  /\ reply = <<>>
  /\ handshakeOk = FALSE
  /\ pipes = <<>>
  /\ wire = <<>>
  /\ probed = {}
  /\ lastStarted = None
  /\ writeFailed = FALSE
  /\ lastStatus = "none"
  /\ printed = <<>>

\* the connection is dialled before the directory is read
ReadDir_DialsFirst ==
  /\ pc = "ReadDir"
  /\ conn' = "open"
  /\ \/ /\ Exit(ExitDirectory)
        /\ UNCHANGED files
     \/ /\ files' \in SeqsUpTo(Kinds, MaxFiles)
        /\ pc' = "SendHeaders"
        /\ UNCHANGED exitCode
  /\ UNCHANGED <<Loop, connBroken, headers, resp, avail, reply, handshakeOk,
                 loopVars>>
  /\ printed' = IF exitCode' = ExitDirectory
                  THEN <<"Could not read directory">> ELSE <<>>

\* ---- func main, lines 141-145 -----------------------------------------------
ReadDir ==
  /\ pc = "ReadDir"
  /\ \/ /\ Exit(ExitDirectory)
        /\ UNCHANGED files
     \/ /\ files' \in SeqsUpTo(Kinds, MaxFiles)
        /\ pc' = "Dial"
        /\ UNCHANGED exitCode
  /\ UNCHANGED <<Loop, netVars, loopVars>>
  /\ printed' = IF exitCode' = ExitDirectory
                  THEN <<"Could not read directory">> ELSE <<>>

\* a dial failure reported with the status of the unreadable directory
Dial_ExitsLikeDirectory ==
  /\ pc = "Dial"
  /\ \/ /\ Exit(ExitDirectory)
        /\ UNCHANGED conn
     \/ /\ conn' = "open"
        /\ pc' = "SendHeaders"
        /\ UNCHANGED exitCode
  /\ UNCHANGED <<Loop, files, connBroken, headers, resp, avail, reply,
                 handshakeOk, loopVars>>
  /\ printed' = IF exitCode' # None
                  THEN <<"Couldn't establish connection", "err.Error()">>
                  ELSE <<>>

\* ---- beginIcecastConnection, lines 104-109 ----------------------------------
Dial ==
  /\ pc = "Dial"
  /\ \/ /\ Exit(ExitDial)
        /\ UNCHANGED conn
     \/ /\ conn' = "open"
        /\ pc' = "SendHeaders"
        /\ UNCHANGED exitCode
  /\ UNCHANGED <<Loop, files, connBroken, headers, resp, avail, reply,
                 handshakeOk, loopVars>>
  /\ printed' = IF exitCode' = ExitDial
                  THEN <<"Couldn't establish connection", "err.Error()">>
                  ELSE <<>>

\* lines 111-123: the ten Fprintf calls; their errors are ignored.
SendHeaders ==
  /\ pc = "SendHeaders"
  /\ headers' = ~connBroken
  /\ pc' = "ReadReply"
  /\ UNCHANGED <<exitCode, Loop, files, conn, connBroken, resp, avail, reply,
                 handshakeOk, loopVars>>
  /\ printed' = <<>>

\* a reader that waits for the whole response instead of one Read
ReadReply_ReadsAll ==
  /\ pc = "ReadReply"
  /\ \E r \in SeqsUpTo(Chars, MaxResp) :
       \E n \in 0..Len(r) :
         /\ (connBroken => n = 0)
         /\ resp' = r
         /\ avail' = n
         /\ reply' = ReadInto(IF connBroken THEN <<>> ELSE r, BuffSize)
  /\ pc' = "CheckReply"
  /\ UNCHANGED <<exitCode, Loop, files, conn, connBroken, headers,
                 handshakeOk, loopVars>>
  /\ printed' = <<>>

\* lines 125-128: one Read into a fresh buffer; the error and the count are
\* ignored.  avail = 0 is a Read that returns no data (EOF, reset, error).
ReadReply ==
  /\ pc = "ReadReply"
  /\ \E r \in SeqsUpTo(Chars, MaxResp) :
       \E n \in 0..Len(r) :
         /\ (connBroken => n = 0)
         /\ resp' = r
         /\ avail' = n
         /\ reply' = ReadInto(Take(r, n), BuffSize)
  /\ pc' = "CheckReply"
  /\ UNCHANGED <<exitCode, Loop, files, conn, connBroken, headers,
                 handshakeOk, loopVars>>
  /\ printed' = <<>>

\* the reply is printed but the process goes on
CheckReply_NoExit ==
  /\ pc = "CheckReply"
  /\ pc' = "Advance"
  /\ handshakeOk' = Contains(reply, ContinueLine)
  /\ resp' = <<>> /\ avail' = 0 /\ reply' = <<>>
  /\ UNCHANGED <<exitCode, Loop, files, conn, connBroken, headers, loopVars>>
  /\ printed' = IF handshakeOk' THEN <<>>
                  ELSE <<"Icecast server refused data transfer:", "reply">>

\* lines 129-137
CheckReply ==
  /\ pc = "CheckReply"
  /\ IF Contains(reply, ContinueLine)
       THEN /\ pc' = "Advance"
            /\ handshakeOk' = TRUE
            /\ resp' = <<>> /\ avail' = 0 /\ reply' = <<>>
            /\ UNCHANGED exitCode
       ELSE /\ Exit(ExitHandshake)
            /\ UNCHANGED <<handshakeOk, resp, avail, reply>>
  /\ UNCHANGED <<Loop, files, conn, connBroken, headers, loopVars>>
  /\ printed' = IF exitCode' = ExitHandshake
                  THEN <<"Icecast server refused data transfer:", "reply">>
                  ELSE <<>>

\* ---- the goroutines, lines 185-190 -------------------------------------------
\* A pipeline record: file is the entry it plays; st is "new" (goroutine
\* created), "running" (ffmpeg started), "exited" (ffmpeg gone, cmd.Run still
\* draining) or "done" (cmd.Run returned, wg.Done called); out counts the
\* chunks ffmpeg has produced, buf those still in the pipe, wr those written
\* to the socket; status is the exit status; copyErr says the copier's write
\* failed and it stopped reading the pipe.
NewPipe(f) ==
  [file |-> f, st |-> "new", out |-> 0, buf |-> 0, wr |-> 0,
   status |-> "none", copyErr |-> FALSE]

Running(i) == pipes[i].st \in {"new", "running", "exited"}

\* the counter of the WaitGroup created for pipeline i
WgCounter(i) == IF pipes[i].st = "done" THEN 0 ELSE 1

\* the cursor wraps to the first entry instead of before it
Advance_WrapToZero ==
  /\ pc = "Advance"
  /\ IF fileIndex + 1 = Len(files)
       THEN IF Loop
              THEN /\ fileIndex' = IF Len(files) = 0 THEN -1 ELSE 0
                   /\ pc' = "Advance"
                   /\ pipes' = <<>> /\ wire' = <<>> /\ probed' = {}
              ELSE /\ fileIndex' = fileIndex + 1
                   /\ pc' = "Return"
                   /\ UNCHANGED <<pipes, wire, probed>>
       ELSE /\ fileIndex' = fileIndex + 1
            /\ pc' = "CheckDir"
            /\ UNCHANGED <<pipes, wire, probed>>
  /\ UNCHANGED <<exitCode, Loop, files, netVars, lastStarted, writeFailed,
                 lastStatus>>
  /\ printed' = <<>>

\* the cursor wraps whatever Loop says
Advance_AlwaysWraps ==
  /\ pc = "Advance"
  /\ IF fileIndex + 1 = Len(files)
       THEN /\ fileIndex' = -1
            /\ pc' = "Advance"
            /\ pipes' = <<>> /\ wire' = <<>> /\ probed' = {}
       ELSE /\ fileIndex' = fileIndex + 1
            /\ pc' = "CheckDir"
            /\ UNCHANGED <<pipes, wire, probed>>
  /\ UNCHANGED <<exitCode, Loop, files, netVars, lastStarted, writeFailed,
                 lastStatus>>
  /\ printed' = <<>>

\* the loop ends one entry early
Advance_StopsEarly ==
  /\ pc = "Advance"
  /\ IF fileIndex + 2 >= Len(files)
       THEN IF Loop
              THEN /\ fileIndex' = -1
                   /\ pc' = "Advance"
                   /\ pipes' = <<>> /\ wire' = <<>> /\ probed' = {}
              ELSE /\ fileIndex' = fileIndex + 1
                   /\ pc' = "Return"
                   /\ UNCHANGED <<pipes, wire, probed>>
       ELSE /\ fileIndex' = fileIndex + 1
            /\ pc' = "CheckDir"
            /\ UNCHANGED <<pipes, wire, probed>>
  /\ UNCHANGED <<exitCode, Loop, files, netVars, lastStarted, writeFailed,
                 lastStatus>>
  /\ printed' = <<>>

\* ---- func main, lines 154-163 -----------------------------------------------
Advance ==
  /\ pc = "Advance"
  /\ IF fileIndex + 1 = Len(files)
       THEN IF Loop
              THEN /\ fileIndex' = -1
                   /\ pc' = "Advance"
                   /\ pipes' = <<>> /\ wire' = <<>> /\ probed' = {}
              ELSE /\ fileIndex' = fileIndex + 1
                   /\ pc' = "Return"
                   /\ UNCHANGED <<pipes, wire, probed>>
       ELSE /\ fileIndex' = fileIndex + 1
            /\ pc' = "CheckDir"
            /\ UNCHANGED <<pipes, wire, probed>>
  /\ UNCHANGED <<exitCode, Loop, files, netVars, lastStarted, writeFailed,
                 lastStatus>>
  /\ printed' = <<>>

\* directories are handed to the probe like files
CheckDir_NoSkip ==
  /\ pc = "CheckDir"
  /\ pc' = "Probe"
  /\ UNCHANGED <<exitCode, Loop, files, netVars, loopVars>>
  /\ printed' = <<>>

\* lines 165-168
CheckDir ==
  /\ pc = "CheckDir"
  /\ pc' = IF files[fileIndex + 1] = "dir" THEN "Advance" ELSE "Probe"
  /\ UNCHANGED <<exitCode, Loop, files, netVars, loopVars>>
  /\ printed' = <<>>

\* the result of readAudioFile is not looked at
Probe_IgnoresFailure ==
  /\ pc = "Probe"
  /\ probed' = probed \cup {fileIndex}
  /\ pc' = "Spawn"
  /\ UNCHANGED <<exitCode, Loop, files, netVars, fileIndex, pipes, wire,
                 lastStarted, writeFailed, lastStatus>>
  /\ printed' = IF files[fileIndex + 1] = "ok" THEN <<>>
                  ELSE <<"Cannot read">>

\* lines 170-175 with readAudioFile, lines 65-99
Probe ==
  /\ pc = "Probe"
  /\ probed' = probed \cup {fileIndex}
  /\ pc' = IF files[fileIndex + 1] = "ok" THEN "Spawn" ELSE "Advance"
  /\ UNCHANGED <<exitCode, Loop, files, netVars, fileIndex, pipes, wire,
                 lastStarted, writeFailed, lastStatus>>
  /\ printed' = IF files[fileIndex + 1] = "ok" THEN <<>>
                  ELSE <<"Cannot read", "Error reading">>

\* lines 177-185: build the command, wg.Add(1), start the goroutine
Spawn ==
  /\ pc = "Spawn"
  /\ pipes' = Append(pipes, NewPipe(fileIndex))
  /\ lastStarted' = fileIndex
  /\ pc' = "Wait"
  /\ UNCHANGED <<exitCode, Loop, files, netVars, fileIndex, wire, probed,
                 writeFailed, lastStatus>>
  /\ printed' = <<"Read", "cmd.String()">>

\* The iteration ends: cmd goes out of scope and with it the exit status,
\* which nothing has read.
EndIteration ==
  /\ lastStatus' = pipes[Len(pipes)].status
  /\ pipes' = [pipes EXCEPT ![Len(pipes)].status = "none"]

\* a failed ffmpeg ends the process
Wait_ExitOnError ==
  /\ pc = "Wait"
  /\ WgCounter(Len(pipes)) = 0
  /\ IF pipes[Len(pipes)].status = "err"
       THEN Exit(ExitDirectory)
       ELSE pc' = "Advance" /\ UNCHANGED exitCode
  /\ EndIteration
  /\ UNCHANGED <<Loop, files, netVars, fileIndex, wire, probed, lastStarted,
                 writeFailed>>
  /\ printed' = <<>>

\* after a failed write the supervisor dials again
Wait_Reconnects ==
  /\ pc = "Wait"
  /\ WgCounter(Len(pipes)) = 0
  /\ pc' = IF pipes[Len(pipes)].copyErr THEN "Dial" ELSE "Advance"
  /\ EndIteration
  /\ UNCHANGED <<exitCode, Loop, files, netVars, fileIndex, wire, probed,
                 lastStarted, writeFailed>>
  /\ printed' = <<>>

\* the supervisor goes on without waiting for the goroutine
Wait_NoBlock ==
  /\ pc = "Wait"
  /\ pc' = "Advance"
  /\ UNCHANGED <<exitCode, Loop, files, netVars, loopVars>>
  /\ printed' = <<>>

\* lines 192-193: wg.Wait(), then Close on the nil currentFileBin (an error
\* that is ignored)
Wait ==
  /\ pc = "Wait"
  /\ WgCounter(Len(pipes)) = 0
  /\ pc' = "Advance"
  /\ EndIteration
  /\ UNCHANGED <<exitCode, Loop, files, netVars, fileIndex, wire, probed,
                 lastStarted, writeFailed>>
  /\ printed' = <<>>

\* lines 149 and 196: main returns, the deferred Close runs
Return ==
  /\ pc = "Return"
  /\ conn' = "closed"
  /\ pc' = "Exited"
  /\ exitCode' = 0
  /\ UNCHANGED <<Loop, files, connBroken, headers, resp, avail, reply,
                 handshakeOk, loopVars>>
  /\ printed' = <<>>

\* ---- cmd.Run, line 189 --------------------------------------------------------
\* cmd.Start: ffmpeg is started, or cannot be (Run returns at once)
RunStart(i) ==
  /\ Alive
  /\ pipes[i].st = "new"
  /\ \/ pipes' = [pipes EXCEPT ![i].st = "running"]
     \/ pipes' = [pipes EXCEPT ![i].st = "done", ![i].status = "err"]
  /\ UNCHANGED <<pc, exitCode, Loop, files, netVars, fileIndex, wire, probed,
                 lastStarted, writeFailed, lastStatus>>
  /\ UNCHANGED printed

\* ffmpeg writes a chunk to its standard output; when nobody reads the pipe
\* any more the write fails and ffmpeg ends
FfmpegWrite(i) ==
  /\ pipes[i].st = "running"
  /\ pipes[i].out < MaxOut
  /\ IF Alive /\ ~pipes[i].copyErr
       THEN pipes' = [pipes EXCEPT ![i].out = @ + 1, ![i].buf = @ + 1]
       ELSE pipes' = [pipes EXCEPT ![i].st = "exited", ![i].status = "err"]
  /\ UNCHANGED <<pc, exitCode, Loop, files, netVars, fileIndex, wire, probed,
                 lastStarted, writeFailed, lastStatus>>
  /\ UNCHANGED printed

\* ffmpeg ends, with a zero or a non-zero status
FfmpegExit(i) ==
  /\ pipes[i].st = "running"
  /\ \E s \in {"ok", "err"} :
       pipes' = [pipes EXCEPT ![i].st = "exited", ![i].status = s]
  /\ UNCHANGED <<pc, exitCode, Loop, files, netVars, fileIndex, wire, probed,
                 lastStarted, writeFailed, lastStatus>>
  /\ UNCHANGED printed

\* What a Write of chunk c puts on the socket: cmd.Stdout is the connection
\* itself, so the bytes of ffmpeg go out as they are.
OnSocket(c) == <<c>>

\* the copier of os/exec: io.Copy(icecastInstance, pipe), one chunk
CopyChunk(i) ==
  /\ Alive
  /\ pipes[i].st \in {"running", "exited"}
  /\ pipes[i].buf > 0
  /\ ~pipes[i].copyErr
  /\ IF connBroken
       THEN /\ pipes' = [pipes EXCEPT ![i].copyErr = TRUE, ![i].buf = 0]
            /\ writeFailed' = TRUE
            /\ UNCHANGED wire
       ELSE /\ pipes' = [pipes EXCEPT ![i].wr = @ + 1, ![i].buf = @ - 1]
            /\ wire' = wire \o OnSocket(<<i, pipes[i].wr + 1>>)
            /\ UNCHANGED writeFailed
  /\ UNCHANGED <<pc, exitCode, Loop, files, netVars, fileIndex, probed,
                 lastStarted, lastStatus>>
  /\ UNCHANGED printed

\* cmd.Wait returns once ffmpeg has ended and the copier has finished;
\* the deferred wg.Done runs
RunReturn(i) ==
  /\ Alive
  /\ pipes[i].st = "exited"
  /\ pipes[i].buf = 0 \/ pipes[i].copyErr
  /\ pipes' = [pipes EXCEPT ![i].st = "done"]
  /\ UNCHANGED <<pc, exitCode, Loop, files, netVars, fileIndex, wire, probed,
                 lastStarted, writeFailed, lastStatus>>
  /\ UNCHANGED printed

\* ---- the environment -----------------------------------------------------------
\* the server or the network drops the connection
PeerReset ==
  /\ Alive
  /\ conn = "open"
  /\ ~connBroken
  /\ connBroken' = TRUE
  /\ UNCHANGED <<pc, exitCode, Loop, files, conn, headers, resp, avail, reply,
                 handshakeOk, loopVars>>
  /\ UNCHANGED printed

\* the process is ended by a signal: no deferred call runs
Signal ==
  /\ Alive
  /\ pc' = "Killed"
  /\ UNCHANGED <<exitCode, Loop, files, netVars, loopVars>>
  /\ UNCHANGED printed

Next ==
  \/ ReadDir
  \/ Dial
  \/ SendHeaders
  \/ ReadReply
  \/ CheckReply
  \/ Advance
  \/ CheckDir
  \/ Probe
  \/ Spawn
  \/ Wait
  \/ Return
  \/ \E i \in DOMAIN pipes : RunStart(i)
  \/ \E i \in DOMAIN pipes : FfmpegWrite(i)
  \/ \E i \in DOMAIN pipes : FfmpegExit(i)
  \/ \E i \in DOMAIN pipes : CopyChunk(i)
  \/ \E i \in DOMAIN pipes : RunReturn(i)
  \/ PeerReset
  \/ Signal

Spec == Init /\ [][Next]_vars

\* The supervisor is a running program and takes its next step; a started
\* pipeline goes on: the copier copies, ffmpeg ends on its finite input and
\* cmd.Run returns.
Supervisor ==
  \/ ReadDir \/ Dial \/ SendHeaders \/ ReadReply \/ CheckReply
  \/ Advance \/ CheckDir \/ Probe \/ Spawn \/ Wait \/ Return

Pipeline ==
  \E i \in DOMAIN pipes :
    RunStart(i) \/ FfmpegExit(i) \/ CopyChunk(i) \/ RunReturn(i)

LiveSpec == Spec /\ WF_vars(Supervisor) /\ WF_vars(Pipeline)

\* ---- properties ------------------------------------------------------------------
RECURSIVE Concat(_)
Concat(ss) == IF ss = <<>> THEN <<>> ELSE Head(ss) \o Concat(Tail(ss))

\* the data the first Read delivered
FirstRead == Take(resp, Min(avail, BuffSize))

HasContinueLine(s) ==
  \E i \in 1..Len(s) :
    /\ i + Len(ContinueLine) - 1 <= Len(s)
    /\ \A k \in 1..Len(ContinueLine) : s[i + k - 1] = ContinueLine[k]

RunningPipes == {i \in DOMAIN pipes : Running(i)}

\* C1: no audio before the session is ready.  A pipeline exists or audio is
\* on the socket only after the handshake has succeeded, and a run that ends
\* with the handshake-rejection status has written no audio and started no
\* pipeline.
C1_NoAudioBeforeReady ==
  /\ (pipes # <<>> \/ wire # <<>>) => handshakeOk
  /\ (pc = "CheckReply" \/ exitCode = ExitHandshake)
       => (wire = <<>> /\ pipes = <<>> /\ ~handshakeOk)

C1_Witness ==
  /\ handshakeOk
  /\ wire # <<>>
  /\ \E i \in DOMAIN pipes : Running(i) /\ pipes[i].wr > 0

\* C2: the step that inspects the reply returns the connection exactly when
\* the data of the first Read contains the continuation line; otherwise the
\* process ends with the handshake-rejection status.
C2_OpenIffContinue ==
  [][(pc = "CheckReply" /\ pc' \notin {"CheckReply", "Killed"})
       => IF HasContinueLine(FirstRead)
            THEN handshakeOk' /\ pc' = "Advance" /\ exitCode' = None
                 /\ conn' = "open"
            ELSE ~handshakeOk' /\ pc' = "Exited"
                 /\ exitCode' = ExitHandshake]_vars

\* the continuation line is in the response but not in the first Read
C2_Witness ==
  /\ exitCode = ExitHandshake
  /\ HasContinueLine(resp)
  /\ ~HasContinueLine(FirstRead)

\* C3: at most one pipeline runs at any time, and whenever the supervisor is
\* not waiting every pipeline it started has returned (child gone, copier
\* finished), in particular when it is about to spawn the next one.
C3_SingleWriter ==
  /\ Cardinality(RunningPipes) <= 1
  /\ pc \in {"Advance", "CheckDir", "Probe", "Spawn", "Return"}
       => \A i \in DOMAIN pipes : pipes[i].st = "done" /\ pipes[i].buf = 0

C3_Witness ==
  /\ Len(pipes) >= 2
  /\ pipes[1].st = "done" /\ pipes[1].wr > 0
  /\ pipes[2].st = "running" /\ pipes[2].wr > 0

\* the chunks <<i, 1>> .. <<i, n>> of pipeline i
ChunksOf(i, n) == [k \in 1..n |-> <<i, k>>]

InQueueOrder ==
  \A i, j \in DOMAIN pipes : i < j => pipes[i].file < pipes[j].file

\* C4: the audio on the socket is the concatenation, in queue
\* order, of the outputs of the pipelines of this pass: the whole output of
\* every pipeline that has returned, and what has been copied so far of the
\* running one.
C4_FullInOrder ==
  /\ InQueueOrder
  /\ wire = Concat([i \in DOMAIN pipes |->
                ChunksOf(i, IF pipes[i].st = "done" THEN pipes[i].out
                            ELSE pipes[i].wr)])

\* a step that spawns a pipeline
SpawnStep == pc = "Spawn" /\ pc' = "Wait"

\* C5: after a write to the socket has failed the supervisor
\* starts no further pipeline, makes no further write attempt and does not
\* return to its loop.
C5_WriteFailureFatal ==
  [][writeFailed => /\ ~SpawnStep
                    /\ pc' \in {pc, "Exited", "Killed"}
                    /\ wire' = wire]_vars

NoPlayable == \A k \in DOMAIN files : files[k] # "ok"

\* C6: with Loop set, a pass over a non-empty listing without a
\* playable entry is not followed by a wrap of the cursor.
C6_NoIdleSpin ==
  [][(Loop /\ NoPlayable /\ Len(files) > 0 /\ pc = "Advance"
        /\ fileIndex + 1 = Len(files))
       => ~(pc' = "Advance" /\ fileIndex' = -1)]_vars

AllPlayable == Len(files) > 0 /\ \A k \in DOMAIN files : files[k] = "ok"

\* C7: with Loop set and N > 0 entries, all playable, the pipelines are
\* spawned for the entries 0, 1, .., N-1, 0, 1, ..: each spawn is for the
\* entry after the one spawned before (entry 0 after entry N-1 and at the
\* start), the loop is never left, and unless the process is ended by a
\* signal a pipeline for entry 0 is spawned again and again.
C7_Looping ==
  /\ [][(Loop /\ AllPlayable /\ SpawnStep)
          => fileIndex = (lastStarted + 1) % Len(files)]_vars
  /\ [](Loop /\ handshakeOk => pc \notin {"Return", "Exited"})
  /\ (Loop /\ AllPlayable /\ handshakeOk)
       ~> (pc = "Killed" \/ (pc = "Spawn" /\ fileIndex = 0))

\* about to spawn entry 0 right after entry N-1
C7_Witness ==
  /\ Loop /\ AllPlayable /\ Len(files) >= 2
  /\ pc = "Spawn" /\ fileIndex = 0
  /\ lastStarted = Len(files) - 1

Started == [i \in DOMAIN pipes |-> pipes[i].file]

AllProbeOk == \A k \in DOMAIN files : files[k] = "ok"

\* C8: without Loop and with N entries that all probe successfully, when the
\* loop has been left exactly one pipeline was spawned per entry, in the
\* order 0 .. N-1; and once the loop has been left nothing is spawned and
\* nothing is written.
C8_OnePassThenDone ==
  /\ []((~Loop /\ AllProbeOk /\ pc \in {"Return", "Exited"}
           /\ exitCode \in {None, 0})
          => Started = [i \in 1..Len(files) |-> i - 1])
  /\ [][(pc \in {"Return", "Exited"})
          => (pipes' = pipes /\ wire' = wire)]_vars

C8_Witness ==
  /\ ~Loop /\ AllProbeOk /\ Len(files) >= 2
  /\ pc = "Exited" /\ exitCode = 0
  /\ Len(pipes) = Len(files)
  /\ wire # <<>>

OkEntries == {k \in DOMAIN files : files[k] = "ok"}

\* C9: every pipeline of the pass belongs to an entry whose probe succeeded;
\* at the end of a pass the number of pipelines spawned is the number of
\* entries whose probe succeeded; a failed probe leaves the process running
\* with its connection and returns to the head of the loop with the cursor
\* on the failed entry, so that the next entry is taken.
C9_ProbeFailureSkips ==
  /\ [](\A i \in DOMAIN pipes : files[pipes[i].file + 1] = "ok")
  /\ []((pc = "Advance" /\ fileIndex + 1 = Len(files))
          => Len(pipes) = Cardinality(OkEntries))
  /\ [][(pc = "Probe" /\ files[fileIndex + 1] = "bad"
            /\ pc' \notin {"Probe", "Killed"})
          => /\ pc' = "Advance"
             /\ fileIndex' = fileIndex
             /\ exitCode' = None
             /\ conn' = conn
             /\ pipes' = pipes /\ wire' = wire]_vars

\* the scenario of the specification: the second of three files fails
C9_Witness ==
  /\ files = <<"ok", "bad", "ok">>
  /\ pc = "Advance" /\ fileIndex + 1 = Len(files)
  /\ Started = <<0, 2>>
  /\ probed = {0, 1, 2}

\* C10: when the wait ends on a pipeline whose ffmpeg ended with an error
\* status and no socket write has failed, the supervisor is back at the head
\* of its loop with the cursor unchanged, the connection open and no exit
\* status.
C10_PipelineErrorRecoverable ==
  [][(pc = "Wait" /\ pc' \notin {"Wait", "Killed"}
        /\ pipes[Len(pipes)].status = "err" /\ ~writeFailed)
       => /\ pc' = "Advance"
          /\ fileIndex' = fileIndex
          /\ conn' = "open"
          /\ exitCode' = None
          /\ lastStatus' = "err"
          /\ Len(pipes') = Len(pipes) /\ wire' = wire]_vars

C10_Witness ==
  /\ Len(pipes) >= 2
  /\ lastStatus = "err"
  /\ pipes[1].st = "done" /\ pipes[1].out > 0
  /\ pipes[2].st = "new"
  /\ ~writeFailed /\ ~connBroken /\ conn = "open"

\* C11: in every terminal state reached after the connection was
\* established (return from main, os.Exit, end by signal) the connection has
\* been closed by the program.
C11_ClosedOnEveryExit ==
  (~Alive /\ conn # "none") => conn = "closed"

\* Elements of the socket stream: <<i, k>> with i >= 1 is chunk k of pipeline
\* i; a chunked-encoding length line for n chunks of payload and the
\* delimiter after the payload are the elements below.
LengthLine(n) == <<0, n>>
Delimiter == <<-1, 0>>
IsPayload(e) == e[1] >= 1

\* C12: every audio chunk on the socket stands between its length line and
\* its delimiter, no zero-length chunk stands between two tracks, and after
\* the normal end of the session the stream ends with the zero-length chunk.
C12_ChunkFramed ==
  /\ \A k \in DOMAIN wire :
       IsPayload(wire[k])
         => /\ k > 1 /\ wire[k - 1] = LengthLine(1)
            /\ k < Len(wire) /\ wire[k + 1] = Delimiter
  /\ \A k \in DOMAIN wire :
       wire[k] = LengthLine(0) => k >= Len(wire) - 1
  /\ (pc = "Exited" /\ exitCode = 0 /\ handshakeOk)
       => (Len(wire) >= 2 /\ wire[Len(wire) - 1] = LengthLine(0)
           /\ wire[Len(wire)] = Delimiter)

\* C13: the statuses of the three fatal conditions are non-zero and pairwise
\* distinct; a step ends the process with the directory, dial or handshake
\* status exactly when it is the failing ReadDir, Dial or reply check; and
\* a process that has exited stays exited (nothing is retried).
C13_DistinctFatalStatuses ==
  /\ [](/\ ExitDirectory # 0 /\ ExitDial # 0 /\ ExitHandshake # 0
        /\ ExitDirectory # ExitDial
        /\ ExitDirectory # ExitHandshake
        /\ ExitDial # ExitHandshake)
  /\ [][(exitCode' # exitCode)
          => /\ exitCode = None
             /\ (pc = "ReadDir") <=> (exitCode' = ExitDirectory)
             /\ (pc = "Dial") <=> (exitCode' = ExitDial)
             /\ (pc = "CheckReply") <=> (exitCode' = ExitHandshake)
             /\ pc' = "Exited"]_vars
  /\ [][(pc = "Exited")
          => (pc' = "Exited" /\ exitCode' = exitCode /\ conn' = conn)]_vars

C13_Witness ==
  /\ pc = "Exited" /\ exitCode = ExitDial
  /\ conn = "none" /\ files # <<>>

\* a step of main that deals with an error: a fatal exit, a failed probe, or
\* the end of the wait for a pipeline whose ffmpeg failed or whose copier
\* met a write failure
HandlesError ==
  \/ exitCode' \in {ExitDirectory, ExitDial, ExitHandshake}
       /\ exitCode = None
  \/ pc = "Probe" /\ pc' = "Advance"
  \/ /\ pc = "Wait" /\ pc' \in {"Advance", "Exited"}
     /\ \/ pipes[Len(pipes)].status = "err"
        \/ pipes[Len(pipes)].copyErr

\* C14: every step of main that deals with an error writes at least one
\* line to standard output.
C14_NoSilentError ==
  [][HandlesError => printed' # <<>>]_vars

\* C15: when the supervisor process has ended, no ffmpeg child it started
\* is still running.
C15_NoOrphanPipeline ==
  ~Alive => \A i \in DOMAIN pipes : pipes[i].st # "running"

\* how far main has come: directory, dial, request, read, check, loop
Stage(p) ==
  CASE p = "ReadDir" -> 0
    [] p = "Dial" -> 1
    [] p = "SendHeaders" -> 2
    [] p = "ReadReply" -> 3
    [] p = "CheckReply" -> 4
    [] OTHER -> 5

\* C16: main never goes back to an earlier stage, so the dial, the request
\* and the reply check are each done at most once; the connection handle,
\* once set, is never set again (it can only be closed), and a healthy
\* handshake is never undone, whatever fails later.
C16_OneConnectionNoRetry ==
  [][/\ Stage(pc') >= Stage(pc)
     /\ (conn = "open") => (conn' \in {"open", "closed"})
     /\ (conn = "closed") => (conn' = "closed")
     /\ handshakeOk => handshakeOk'
     /\ headers => headers']_vars

\* the loop goes on with the same connection after a write failure and a
\* failed pipeline
C16_Witness ==
  /\ pc = "Spawn" /\ conn = "open"
  /\ connBroken /\ writeFailed /\ handshakeOk
  /\ Len(pipes) >= 1

\* C17: while the directory is being read, and after a run that ended on an
\* unreadable directory, nothing has been dialled and no request byte sent;
\* the request is sent only on a dialled connection; and entries are probed
\* and pipelines spawned only after the handshake has succeeded.
C17_StateOrdering ==
  /\ (pc = "ReadDir" \/ exitCode = ExitDirectory)
       => (conn = "none" /\ ~headers /\ resp = <<>>)
  /\ headers => conn # "none"
  /\ (pc \in {"CheckDir", "Probe", "Spawn", "Wait", "Return"}
        \/ probed # {} \/ pipes # <<>> \/ fileIndex # -1)
       => handshakeOk

C17_Witness ==
  /\ pc = "Exited" /\ exitCode = ExitDirectory
  /\ conn = "none" /\ ~headers
  /\ printed # <<>>

\* C18: no directory entry is ever probed or given a pipeline, and the step
\* that meets a directory entry goes back to the head of the loop and
\* changes nothing else: cursor, probes, pipelines, socket, connection and
\* exit status stay as they are and nothing is printed.
C18_DirectorySkipped ==
  /\ [](\A k \in probed : files[k + 1] # "dir")
  /\ [](\A i \in DOMAIN pipes : files[pipes[i].file + 1] # "dir")
  /\ [][(pc = "CheckDir" /\ files[fileIndex + 1] = "dir"
           /\ pc' \notin {"CheckDir", "Killed"})
          => /\ pc' = "Advance"
             /\ UNCHANGED <<fileIndex, probed, pipes, wire, conn, exitCode,
                            lastStarted, writeFailed>>
             /\ printed' = <<>>]_vars
  /\ [][(pc = "Advance" /\ fileIndex >= 0 /\ fileIndex' # fileIndex
           /\ files[fileIndex + 1] = "dir")
          => (fileIndex' = fileIndex + 1 \/ fileIndex' = -1)]_vars

\* a directory, then a played file: the directory left no trace
C18_Witness ==
  /\ Len(files) >= 2 /\ files[1] = "dir" /\ files[2] = "ok"
  /\ pc = "Wait" /\ fileIndex = 1
  /\ probed = {1} /\ Started = <<1>>
  /\ wire # <<>>

\* C19: without Loop the cursor only moves forward, one entry at a time, so
\* each entry is visited once; main leaves the loop only behind the last
\* entry; a normal exit has closed the connection; and, each pipeline
\* coming to its end, a run whose handshake succeeded reaches that exit
\* unless a signal ends the process first.
C19_TerminatesWithoutLoop ==
  /\ [][(~Loop /\ fileIndex' # fileIndex)
          => fileIndex' = fileIndex + 1]_vars
  /\ []((~Loop /\ (pc = "Return" \/ (pc = "Exited" /\ exitCode = 0)))
          => (fileIndex = Len(files) /\ \A i \in DOMAIN pipes : ~Running(i)))
  /\ []((pc = "Exited" /\ exitCode = 0) => conn = "closed")
  /\ (~Loop /\ handshakeOk)
       ~> (pc = "Killed" \/ (pc = "Exited" /\ exitCode = 0))

\* a listing of every kind, with a write failure on the way
C19_Witness ==
  /\ ~Loop /\ files = <<"dir", "bad", "ok">>
  /\ pc = "Exited" /\ exitCode = 0 /\ conn = "closed"
  /\ fileIndex = Len(files)
  /\ writeFailed
====
